---- MODULE Spec2Model ----
(***************************************************************************)
(* Model of the Payments Company CDK application: app.py builds one        *)
(* PaymentsCompanyInfraStack, whose constructor runs four declarators      *)
(* (network, cluster, database, outputs) and then synthesizes the          *)
(* construct tree into a template; a provisioning engine then creates and  *)
(* destroys the declared resources along the reference edges.              *)
(***************************************************************************)
EXTENDS Integers, Sequences, FiniteSets, TLC

VARIABLES
    envGiven,    \* whether the Stack was given env=... in **kwargs
    regionAzs,   \* number of availability zones of the region deployed to
    pc,          \* index of the next statement of Program
    handles,     \* Python locals bound so far
    missing,     \* locals a statement read before they were bound
    calls,       \* declarators invoked so far, in order
    tree,        \* the construct tree: declared resources by kind
    run,         \* number of the current invocation of app.py
    templates,   \* templates produced by app.synth(), one per finished run
    phase,       \* provisioning engine: idle, creating, complete, deleting, deleted
    live,        \* ids of the resources that exist in the cloud
    createCount  \* how many times the engine created each resource

vars == <<envGiven, regionAzs, pc, handles, missing, calls, tree, run,
          templates, phase, live, createCount>>

-----------------------------------------------------------------------------
(* Bounds of the model *)

\* Largest number of availability zones a target region offers.
MaxRegionAzs == 4

\* Number of invocations of app.py (synthesis runs) explored.
MaxRuns == 2

-----------------------------------------------------------------------------
(* Helpers *)

Min(a, b) == IF a <= b THEN a ELSE b

\* A dotted IPv4 address as a 32-bit number.
Ip(a, b, c, d) == ((a * 256 + b) * 256 + c) * 256 + d

RECURSIVE Pow2(_)
Pow2(n) == IF n = 0 THEN 1 ELSE 2 * Pow2(n - 1)

\* addr lies in the block cidr = [base, mask]: the top `mask` bits agree.
InCidr(addr, cidr) ==
    addr \div Pow2(32 - cidr.mask) = cidr.base \div Pow2(32 - cidr.mask)

-----------------------------------------------------------------------------
(* app.py *)

\* app.py:9-13 passes a construct id and a description, and no env.
AppEnvGiven == FALSE

-----------------------------------------------------------------------------
(* _create_vpc *)

MaxAzs == 3
NatGatewaysRequested == 3
SubnetCidrMask == 24
VpcCidr == [base |-> Ip(10, 0, 0, 0), mask |-> 16]

SubnetConfiguration ==
    { [name |-> "Public",  type |-> "PUBLIC",              mask |-> SubnetCidrMask],
      [name |-> "Private", type |-> "PRIVATE_WITH_EGRESS", mask |-> SubnetCidrMask] }

\* Stack.availability_zones as ec2.Vpc reads it: a stack without env is
\* environment-agnostic and offers Fn::Select 0 and 1 of Fn::GetAZs, two
\* zones whatever the region; a stack with env offers the region's zones.
StackAvailabilityZones(given, nAzs) ==
    IF given THEN 1 .. nAzs ELSE 1 .. 2

\* ec2.Vpc keeps the first max_azs of the stack's zones.
VpcAvailabilityZones(given, nAzs) ==
    { z \in StackAvailabilityZones(given, nAzs) : z <= MaxAzs }

\* One subnet per zone per entry of subnet_configuration.
VpcSubnets(azs) ==
    { [zone |-> z, name |-> c.name, type |-> c.type, mask |-> c.mask] :
        z \in azs, c \in SubnetConfiguration }

\* nat_gateways=3: one NAT gateway in the public subnet of each of the first
\* min(nat_gateways, number of zones) zones.
VpcNatGateways(azs) ==
    { z \in azs : z <= Min(NatGatewaysRequested, Cardinality(azs)) }

\* The default route of the private subnet of zone z: the NAT gateway of its
\* own zone when there is one, else one of the others.
NatRoute(z, nats) ==
    IF z \in nats THEN z ELSE CHOOSE n \in nats : \A m \in nats : n <= m

Vpc(given, nAzs) ==
    LET azs == VpcAvailabilityZones(given, nAzs)
        nats == VpcNatGateways(azs)
    IN [ id |-> "PaymentsVpc",
         refs |-> {},
         name |-> "payments-vpc",
         cidr |-> VpcCidr,
         azs |-> azs,
         subnets |-> VpcSubnets(azs),
         natGateways |-> nats,
         natRoute |-> [z \in azs |-> NatRoute(z, nats)],
         dnsHostnames |-> TRUE,
         dnsSupport |-> TRUE ]

\* ec2.SubnetSelection(subnet_type=t) resolved against a VPC.
SelectSubnets(vpc, t) == { s \in vpc.subnets : s.type = t }


-----------------------------------------------------------------------------
(* _create_eks_cluster *)

DefaultCapacity == 0
NodegroupMinSize == 2
NodegroupMaxSize == 2
NodegroupDesiredSize == 2
NodegroupDiskSize == 50

\* Variant: the role name is generated anew by every invocation.
ObservabilityRolePerRun ==
    [ id |-> "CloudWatchObservabilityRole",
      refs |-> {},
      name |-> IF run = 1 THEN "PaymentsEKSCloudWatchObservabilityRole"
               ELSE "PaymentsEKSCloudWatchObservabilityRole-next",
      assumedBy |-> "pods.eks.amazonaws.com",
      managedPolicies |-> {"CloudWatchAgentServerPolicy", "AWSXrayWriteOnlyAccess"} ]

ObservabilityRole ==
    [ id |-> "CloudWatchObservabilityRole",
      refs |-> {},
      name |-> "PaymentsEKSCloudWatchObservabilityRole",
      assumedBy |-> "pods.eks.amazonaws.com",
      managedPolicies |-> {"CloudWatchAgentServerPolicy", "AWSXrayWriteOnlyAccess"} ]

ClusterSubnetType == "PRIVATE_WITH_EGRESS"

\* Variant: vpc=vpc is left out, so the cluster gets a network of its own.
EksClusterOwnVpc(vpc) ==
    [ id |-> "PaymentsEksCluster",
      refs |-> {},
      name |-> "payments-eks-cluster",
      version |-> "1.32",
      vpc |-> "PaymentsEksClusterDefaultVpc",
      subnets |-> SelectSubnets(vpc, ClusterSubnetType),
      defaultCapacity |-> DefaultCapacity,
      endpointAccess |-> "PUBLIC_AND_PRIVATE",
      logging |-> {"api", "audit", "authenticator", "controllerManager", "scheduler"} ]

EksCluster(vpc) ==
    [ id |-> "PaymentsEksCluster",
      refs |-> {vpc.id},
      name |-> "payments-eks-cluster",
      version |-> "1.32",
      vpc |-> vpc.id,
      subnets |-> SelectSubnets(vpc, ClusterSubnetType),
      defaultCapacity |-> DefaultCapacity,
      endpointAccess |-> "PUBLIC_AND_PRIVATE",
      logging |-> {"api", "audit", "authenticator", "controllerManager", "scheduler"} ]

\* Variant: the worker pool selects the public subnets.
NodegroupSubnetTypePublic == "PUBLIC"

NodegroupSubnetType == "PRIVATE_WITH_EGRESS"

\* Variant: the pool may scale out to 4 nodes.
NodegroupScaling(cluster, vpc) ==
    [ id |-> "PaymentsNodeGroup",
      refs |-> {cluster.id},
      name |-> "payments-worker-nodes",
      instanceTypes |-> {"m6a.large"},
      minSize |-> NodegroupMinSize,
      maxSize |-> 2 * NodegroupMaxSize,
      desiredSize |-> NodegroupDesiredSize,
      diskSize |-> NodegroupDiskSize,
      subnets |-> SelectSubnets(vpc, NodegroupSubnetType),
      capacityType |-> "ON_DEMAND",
      amiType |-> "AL2023_X86_64_STANDARD" ]

\* eks_cluster.add_nodegroup_capacity(...): the subnets are selected from the
\* cluster's own VPC.
Nodegroup(cluster, vpc) ==
    [ id |-> "PaymentsNodeGroup",
      refs |-> {cluster.id},
      name |-> "payments-worker-nodes",
      instanceTypes |-> {"m6a.large"},
      minSize |-> NodegroupMinSize,
      maxSize |-> NodegroupMaxSize,
      desiredSize |-> NodegroupDesiredSize,
      diskSize |-> NodegroupDiskSize,
      subnets |-> SelectSubnets(vpc, NodegroupSubnetType),
      capacityType |-> "ON_DEMAND",
      amiType |-> "AL2023_X86_64_STANDARD" ]

PodIdentityAssociation(cluster, role) ==
    [ id |-> "CloudWatchObservabilityPodIdentity",
      refs |-> {cluster.id, role.id},
      clusterName |-> cluster.name,
      namespace |-> "amazon-cloudwatch",
      serviceAccount |-> "cloudwatch-agent",
      role |-> role.id ]

Addon(cluster) ==
    [ id |-> "CloudWatchObservabilityAddon",
      refs |-> {cluster.id},
      addonName |-> "amazon-cloudwatch-observability",
      clusterName |-> cluster.name,
      resolveConflicts |-> "OVERWRITE" ]

-----------------------------------------------------------------------------
(* _create_aurora_cluster *)

MysqlPort == 3306
BackupRetentionDays == 7

\* ec2.SecurityGroup(...): no ingress rule yet.
AuroraSecurityGroup(vpc) ==
    [ id |-> "AuroraSecurityGroup",
      refs |-> {vpc.id},
      name |-> "payments-aurora-sg",
      vpc |-> vpc.id,
      allowAllOutbound |-> TRUE,
      ingress |-> {} ]

\* Variant: the peer is 10.0.0.0/8 instead of the VPC's own block.
AuroraIngressRuleWide(vpc) ==
    [ peer |-> [base |-> vpc.cidr.base, mask |-> 8], protocol |-> "tcp",
      fromPort |-> MysqlPort, toPort |-> MysqlPort ]

\* add_ingress_rule(peer=Peer.ipv4(vpc.vpc_cidr_block), connection=Port.tcp(3306)).
AuroraIngressRule(vpc) ==
    [ peer |-> vpc.cidr, protocol |-> "tcp", fromPort |-> MysqlPort, toPort |-> MysqlPort ]

\* Whether a security group lets a TCP packet from src to port in.
Admits(sg, src, port) ==
    \E r \in sg.ingress :
        /\ r.protocol = "tcp"
        /\ r.fromPort <= port /\ port <= r.toPort
        /\ InCidr(src, r.peer)

\* rds.Credentials.from_generated_secret(user, secret_name=...): the cluster
\* generates a secret and keeps a reference to it.
GeneratedSecret ==
    { [ name |-> "payments/aurora/credentials",
        username |-> "payments_admin",
        arn |-> "${PaymentsAuroraClusterSecret.Arn}" ] }

DatabaseSubnetType == "PRIVATE_WITH_EGRESS"

DatabaseCluster(vpc, sg) ==
    [ id |-> "PaymentsAuroraCluster",
      refs |-> {vpc.id, sg.id},
      identifier |-> "payments-aurora-cluster",
      engine |-> "aurora-mysql-3.08.0",
      secret |-> GeneratedSecret,
      defaultDatabaseName |-> "payments",
      writer |-> [id |-> "Writer", instanceType |-> "r6g.large"],
      readers |-> { [id |-> "Reader", instanceType |-> "r6g.large"] },
      vpc |-> vpc.id,
      subnets |-> SelectSubnets(vpc, DatabaseSubnetType),
      securityGroups |-> {sg.id},
      storageEncrypted |-> TRUE,
      backupRetentionDays |-> BackupRetentionDays,
      deletionProtection |-> FALSE,
      removalPolicy |-> "DESTROY" ]

-----------------------------------------------------------------------------
(* _create_outputs *)

\* A CfnOutput: value is the list of fragments of the rendered string,
\* exportName is empty when export_name is not passed.
Output(id, value, exportName) ==
    [ id |-> id, value |-> value, exportName |-> exportName ]

\* Variant: the sentinel is exported whether or not the secret exists.
AuroraSecretArnSentinelOnly(db) == << "N/A" >>

\* aurora_cluster.secret.secret_arn if aurora_cluster.secret else "N/A"
AuroraSecretArnValue(db) ==
    IF db.secret # {}
    THEN << (CHOOSE s \in db.secret : TRUE).arn >>
    ELSE << "N/A" >>

KubectlCommand(cluster) ==
    << "aws eks update-kubeconfig --name ", cluster.name, " --region ${AWS_REGION}" >>

\* Variant: EksClusterArn is exported under EksClusterEndpoint's name.
OutputsDuplicateExport(vpc, cluster, db) ==
    { Output("VpcId", << "${PaymentsVpc}" >>, {"PaymentsVpcId"}),
      Output("EksClusterName", << cluster.name >>, {"PaymentsEksClusterName"}),
      Output("EksClusterEndpoint", << "${PaymentsEksCluster.Endpoint}" >>,
             {"PaymentsEksClusterEndpoint"}),
      Output("EksClusterArn", << "${PaymentsEksCluster.Arn}" >>,
             {"PaymentsEksClusterEndpoint"}),
      Output("EksKubectlCommand", KubectlCommand(cluster), {}),
      Output("AuroraClusterEndpoint", << "${PaymentsAuroraCluster.Endpoint.Address}" >>,
             {"PaymentsAuroraClusterEndpoint"}),
      Output("AuroraClusterReaderEndpoint",
             << "${PaymentsAuroraCluster.ReadEndpoint.Address}" >>,
             {"PaymentsAuroraClusterReaderEndpoint"}),
      Output("AuroraSecretArn", AuroraSecretArnValue(db), {"PaymentsAuroraSecretArn"}) }

Outputs(vpc, cluster, db) ==
    { Output("VpcId", << "${PaymentsVpc}" >>, {"PaymentsVpcId"}),
      Output("EksClusterName", << cluster.name >>, {"PaymentsEksClusterName"}),
      Output("EksClusterEndpoint", << "${PaymentsEksCluster.Endpoint}" >>,
             {"PaymentsEksClusterEndpoint"}),
      Output("EksClusterArn", << "${PaymentsEksCluster.Arn}" >>,
             {"PaymentsEksClusterArn"}),
      Output("EksKubectlCommand", KubectlCommand(cluster), {}),
      Output("AuroraClusterEndpoint", << "${PaymentsAuroraCluster.Endpoint.Address}" >>,
             {"PaymentsAuroraClusterEndpoint"}),
      Output("AuroraClusterReaderEndpoint",
             << "${PaymentsAuroraCluster.ReadEndpoint.Address}" >>,
             {"PaymentsAuroraClusterReaderEndpoint"}),
      Output("AuroraSecretArn", AuroraSecretArnValue(db), {"PaymentsAuroraSecretArn"}) }

-----------------------------------------------------------------------------
(* PaymentsCompanyInfraStack.__init__ and app.py: the statements in order *)

\* Variant: __init__ calls the database declarator before the cluster one.
ProgramDatabaseFirst ==
    << "create_vpc",
       "create_security_group", "add_ingress_rule", "create_database_cluster",
       "create_role", "create_cluster", "add_nodegroup", "create_pod_identity",
       "create_addon",
       "create_outputs",
       "synth" >>

Program ==
    << "create_vpc",
       "create_role", "create_cluster", "add_nodegroup", "create_pod_identity",
       "create_addon",
       "create_security_group", "add_ingress_rule", "create_database_cluster",
       "create_outputs",
       "synth" >>

\* The declarator a statement belongs to.
DeclaratorOf(stmt) ==
    CASE stmt = "create_vpc" -> "network"
      [] stmt \in {"create_role", "create_cluster", "add_nodegroup",
                   "create_pod_identity", "create_addon"} -> "cluster"
      [] stmt \in {"create_security_group", "add_ingress_rule",
                   "create_database_cluster"} -> "database"
      [] stmt = "create_outputs" -> "outputs"
      [] OTHER -> "app"

\* The locals a statement reads. The first statement of a declarator also
\* reads the arguments of the call in __init__.
Uses(stmt) ==
    CASE stmt = "create_vpc" -> {}
      [] stmt = "create_role" -> {"vpc"}
      [] stmt = "create_cluster" -> {"vpc"}
      [] stmt = "add_nodegroup" -> {"eks_cluster"}
      [] stmt = "create_pod_identity" -> {"eks_cluster", "cloudwatch_observability_role"}
      [] stmt = "create_addon" -> {"eks_cluster"}
      [] stmt = "create_security_group" -> {"vpc", "eks_cluster"}
      [] stmt = "add_ingress_rule" -> {"aurora_security_group", "vpc"}
      [] stmt = "create_database_cluster" -> {"vpc", "aurora_security_group"}
      [] stmt = "create_outputs" -> {"vpc", "eks_cluster", "aurora_cluster"}
      [] OTHER -> {}

\* The local a statement binds.
Binds(stmt) ==
    CASE stmt = "create_vpc" -> {"vpc"}
      [] stmt = "create_role" -> {"cloudwatch_observability_role"}
      [] stmt = "create_cluster" -> {"eks_cluster"}
      [] stmt = "create_security_group" -> {"aurora_security_group"}
      [] stmt = "create_database_cluster" -> {"aurora_cluster"}
      [] OTHER -> {}

EmptyTree ==
    [ vpcs |-> {}, roles |-> {}, clusters |-> {}, nodegroups |-> {},
      podIdentities |-> {}, addons |-> {}, securityGroups |-> {},
      dbClusters |-> {}, outputs |-> {} ]

Done == Len(Program) + 1

TheVpc == CHOOSE v \in tree.vpcs : TRUE
TheRole == CHOOSE r \in tree.roles : TRUE
TheCluster == CHOOSE c \in tree.clusters : TRUE
TheSecurityGroup == CHOOSE g \in tree.securityGroups : TRUE
TheDatabase == CHOOSE d \in tree.dbClusters : TRUE

\* What every statement does besides declaring: it runs only when it is the
\* next one, reads its locals (an unbound one raises and ends the program)
\* and binds its result.
Bound(stmt) == Uses(stmt) \subseteq handles

Statement(stmt) ==
    /\ pc < Done
    /\ missing = {}
    /\ Program[pc] = stmt
    /\ calls' = IF DeclaratorOf(stmt) = "app"
                   \/ (calls # << >> /\ calls[Len(calls)] = DeclaratorOf(stmt))
                THEN calls
                ELSE Append(calls, DeclaratorOf(stmt))
    /\ IF Bound(stmt)
       THEN /\ pc' = pc + 1
            /\ handles' = handles \cup Binds(stmt)
            /\ missing' = {}
       ELSE /\ missing' = Uses(stmt) \ handles
            /\ UNCHANGED <<pc, handles>>
    /\ UNCHANGED <<envGiven, regionAzs, run, phase, live, createCount>>

Declare(stmt, newTree) ==
    /\ Statement(stmt)
    /\ tree' = IF Bound(stmt) THEN newTree ELSE tree
    /\ UNCHANGED templates

CreateVpc ==
    Declare("create_vpc",
            [tree EXCEPT !.vpcs = @ \cup {Vpc(envGiven, regionAzs)}])

CreateRole ==
    Declare("create_role", [tree EXCEPT !.roles = @ \cup {ObservabilityRole}])

CreateCluster ==
    Declare("create_cluster",
            [tree EXCEPT !.clusters = @ \cup {EksCluster(TheVpc)}])

AddNodegroup ==
    Declare("add_nodegroup",
            [tree EXCEPT !.nodegroups = @ \cup {Nodegroup(TheCluster, TheVpc)}])

CreatePodIdentity ==
    Declare("create_pod_identity",
            [tree EXCEPT !.podIdentities =
                @ \cup {PodIdentityAssociation(TheCluster, TheRole)}])

CreateAddon ==
    Declare("create_addon", [tree EXCEPT !.addons = @ \cup {Addon(TheCluster)}])

CreateSecurityGroup ==
    Declare("create_security_group",
            [tree EXCEPT !.securityGroups = @ \cup {AuroraSecurityGroup(TheVpc)}])

AddIngressRule ==
    Declare("add_ingress_rule",
            [tree EXCEPT !.securityGroups =
                { [g EXCEPT !.ingress = @ \cup {AuroraIngressRule(TheVpc)}] :
                    g \in {TheSecurityGroup} }])

CreateDatabaseCluster ==
    Declare("create_database_cluster",
            [tree EXCEPT !.dbClusters =
                @ \cup {DatabaseCluster(TheVpc, TheSecurityGroup)}])

CreateOutputs ==
    Declare("create_outputs",
            [tree EXCEPT !.outputs = Outputs(TheVpc, TheCluster, TheDatabase)])

\* app.synth(): the construct tree becomes the template of this run.
Synth ==
    /\ Statement("synth")
    /\ templates' = IF Bound("synth") THEN Append(templates, tree) ELSE templates
    /\ UNCHANGED tree

\* app.py is invoked again with the same inputs: a new process, an empty tree.
Resynth ==
    /\ pc = Done
    /\ phase = "idle"
    /\ run < MaxRuns
    /\ run' = run + 1
    /\ pc' = 1
    /\ handles' = {}
    /\ calls' = << >>
    /\ tree' = EmptyTree
    /\ UNCHANGED <<envGiven, regionAzs, missing, templates, phase, live, createCount>>

-----------------------------------------------------------------------------
(* The provisioning engine: creates and destroys along the reference edges *)

ResourceIds(t) ==
    {r.id : r \in t.vpcs} \cup {r.id : r \in t.roles} \cup {r.id : r \in t.clusters}
    \cup {r.id : r \in t.nodegroups} \cup {r.id : r \in t.podIdentities}
    \cup {r.id : r \in t.addons} \cup {r.id : r \in t.securityGroups}
    \cup {r.id : r \in t.dbClusters}

\* The resources a resource refers to by handle.
Refs(t, id) ==
    UNION ( {r.refs : r \in {x \in t.vpcs : x.id = id}}
            \cup {r.refs : r \in {x \in t.roles : x.id = id}}
            \cup {r.refs : r \in {x \in t.clusters : x.id = id}}
            \cup {r.refs : r \in {x \in t.nodegroups : x.id = id}}
            \cup {r.refs : r \in {x \in t.podIdentities : x.id = id}}
            \cup {r.refs : r \in {x \in t.addons : x.id = id}}
            \cup {r.refs : r \in {x \in t.securityGroups : x.id = id}}
            \cup {r.refs : r \in {x \in t.dbClusters : x.id = id}} )

AllIds ==
    { "PaymentsVpc", "CloudWatchObservabilityRole", "PaymentsEksCluster",
      "PaymentsNodeGroup", "CloudWatchObservabilityPodIdentity",
      "CloudWatchObservabilityAddon", "AuroraSecurityGroup", "PaymentsAuroraCluster" }

Deployed == templates[Len(templates)]

EngineCreate(id) ==
    /\ pc = Done
    /\ phase \in {"idle", "creating"}
    /\ id \in ResourceIds(Deployed) \ live
    /\ Refs(Deployed, id) \subseteq live
    /\ live' = live \cup {id}
    /\ createCount' = [createCount EXCEPT ![id] = @ + 1]
    /\ phase' = IF live' = ResourceIds(Deployed) THEN "complete" ELSE "creating"
    /\ UNCHANGED <<envGiven, regionAzs, pc, handles, missing, calls, tree, run,
                   templates>>

EngineDestroy(id) ==
    /\ pc = Done
    /\ phase \in {"complete", "deleting"}
    /\ id \in live
    /\ \A other \in live : id \notin Refs(Deployed, other)
    /\ live' = live \ {id}
    /\ phase' = IF live' = {} THEN "deleted" ELSE "deleting"
    /\ UNCHANGED <<envGiven, regionAzs, pc, handles, missing, calls, tree, run,
                   templates, createCount>>

-----------------------------------------------------------------------------

Init ==
    /\ envGiven \in BOOLEAN
    /\ regionAzs \in 2 .. MaxRegionAzs
    /\ pc = 1
    /\ handles = {}
    /\ missing = {}
    /\ calls = << >>
    /\ tree = EmptyTree
    /\ run = 1
    /\ templates = << >>
    /\ phase = "idle"
    /\ live = {}
    /\ createCount = [id \in AllIds |-> 0]

Next ==
    \/ CreateVpc
    \/ CreateRole
    \/ CreateCluster
    \/ AddNodegroup
    \/ CreatePodIdentity
    \/ CreateAddon
    \/ CreateSecurityGroup
    \/ AddIngressRule
    \/ CreateDatabaseCluster
    \/ CreateOutputs
    \/ Synth
    \/ Resynth
    \/ \E id \in AllIds : EngineCreate(id)
    \/ \E id \in AllIds : EngineDestroy(id)

Spec == Init /\ [][Next]_vars

-----------------------------------------------------------------------------
(* Properties *)

Private(subnets) == { s \in subnets : s.type = "PRIVATE_WITH_EGRESS" }
Public(subnets) == { s \in subnets : s.type = "PUBLIC" }

\* The stack has been built and synthesized the way app.py does it.
AppSynthesized == pc = Done /\ envGiven = AppEnvGiven /\ templates # << >>

\* C1: every synthesis of the app's stack yields exactly 6 subnets, 3 public
\* and 3 private-with-egress, one of each type in each of 3 zones.
C1_SixSubnets ==
    AppSynthesized =>
        \A v \in Deployed.vpcs :
            /\ Cardinality(v.subnets) = 6
            /\ Cardinality(Public(v.subnets)) = 3
            /\ Cardinality(Private(v.subnets)) = 3
            /\ Cardinality(v.azs) = 3
            /\ \A z \in v.azs :
                /\ Cardinality({s \in Public(v.subnets) : s.zone = z}) = 1
                /\ Cardinality({s \in Private(v.subnets) : s.zone = z}) = 1

\* Source and port samples for packets sent to the database boundary.
ProbeAddrs ==
    { Ip(10, 0, 0, 5), Ip(10, 0, 255, 255), Ip(10, 1, 0, 0), Ip(9, 255, 255, 255),
      Ip(8, 8, 8, 8), Ip(11, 0, 0, 0) }
ProbePorts == { 22, 443, 3305, 3306, 3307 }

\* C2: the database security group admits a packet only on TCP 3306 from
\* inside the VPC's address range, admits every such packet once it is
\* attached to the database cluster, and never carries another ingress rule.
C2_OnlyMysqlFromVpc ==
    \A g \in tree.securityGroups :
        /\ g.ingress \subseteq
              { [ peer |-> TheVpc.cidr, protocol |-> "tcp",
                  fromPort |-> 3306, toPort |-> 3306 ] }
        /\ \A src \in ProbeAddrs, port \in ProbePorts :
            /\ Admits(g, src, port) => (port = 3306 /\ InCidr(src, TheVpc.cidr))
            /\ (tree.dbClusters # {} /\ port = 3306 /\ InCidr(src, TheVpc.cidr))
                  => Admits(g, src, port)

C2_Witness ==
    /\ tree.dbClusters # {}
    /\ \E g \in tree.securityGroups :
        /\ TheDatabase.securityGroups = {g.id}
        /\ Admits(g, Ip(10, 0, 255, 255), 3306)
        /\ ~Admits(g, Ip(10, 1, 0, 0), 3306)
        /\ ~Admits(g, Ip(10, 0, 0, 5), 3307)

SecretArnOutputs == { o \in tree.outputs : o.id = "AuroraSecretArn" }

\* C3: output AuroraSecretArn is "N/A" exactly when the database cluster has
\* no generated secret, and is the secret's ARN when it has one.
C3_SecretArnOrSentinel ==
    tree.outputs # {} =>
        /\ Cardinality(SecretArnOutputs) = 1
        /\ \A o \in SecretArnOutputs :
            /\ (o.value = << "N/A" >>) <=> (TheDatabase.secret = {})
            /\ \A s \in TheDatabase.secret : o.value = << s.arn >>

C3_Witness ==
    /\ pc = Done
    /\ TheDatabase.secret # {}
    /\ \E o \in SecretArnOutputs : o.value = << "${PaymentsAuroraClusterSecret.Arn}" >>

FixedPool(t) ==
    /\ \A n \in t.nodegroups : n.minSize = 2 /\ n.maxSize = 2 /\ n.desiredSize = 2
    /\ \A c \in t.clusters : c.defaultCapacity = 0

\* C4: the node group's min, max and desired size are 2 in every state, in
\* the tree and in every synthesized template, the control plane adds no
\* default capacity, and no step of a run changes a declared node group.
C4_FixedWorkerPool ==
    /\ [](FixedPool(tree) /\ \A i \in 1 .. Len(templates) : FixedPool(templates[i]))
    /\ [][(tree.nodegroups # {} /\ run' = run) => tree'.nodegroups = tree.nodegroups]_vars

C4_Witness ==
    /\ phase = "complete"
    /\ "PaymentsNodeGroup" \in live
    /\ Deployed.nodegroups # {}
    /\ Deployed.clusters # {}

\* C5: the network has one NAT gateway per zone, 3 in total, and every
\* private subnet routes through the NAT gateway of its own zone.
C5_NatPerZone ==
    AppSynthesized =>
        \A v \in Deployed.vpcs :
            /\ Cardinality(v.natGateways) = 3
            /\ v.natGateways = v.azs
            /\ \A s \in Private(v.subnets) : v.natRoute[s.zone] = s.zone

OutputIds ==
    { "VpcId", "EksClusterName", "EksClusterEndpoint", "EksClusterArn",
      "EksKubectlCommand", "AuroraClusterEndpoint", "AuroraClusterReaderEndpoint",
      "AuroraSecretArn" }

DistinctExports(outs) ==
    \A a, b \in outs : (a # b) => (a.exportName \cap b.exportName = {})

\* C7 as stated: every one of the eight outputs has an export name, and the
\* export names are pairwise distinct.
C7_AllExported ==
    tree.outputs # {} =>
        /\ {o.id : o \in tree.outputs} = OutputIds
        /\ \A o \in tree.outputs : Cardinality(o.exportName) = 1
        /\ DistinctExports(tree.outputs)

\* C7 amended: every output but EksKubectlCommand has exactly one export
\* name, the export names are pairwise distinct, and EksKubectlCommand has
\* none.
C7_ExportedExceptKubectl ==
    tree.outputs # {} =>
        /\ {o.id : o \in tree.outputs} = OutputIds
        /\ Cardinality(tree.outputs) = Cardinality(OutputIds)
        /\ \A o \in tree.outputs :
            Cardinality(o.exportName) = IF o.id = "EksKubectlCommand" THEN 0 ELSE 1
        /\ DistinctExports(tree.outputs)

C7_Witness ==
    /\ \E o \in tree.outputs : o.id = "EksKubectlCommand" /\ o.exportName = {}
    /\ \E o \in tree.outputs : o.exportName = {"PaymentsAuroraSecretArn"}

InPrivateSubnets(r) ==
    /\ r.subnets # {}
    /\ r.subnets \subseteq Private(TheVpc.subnets)

\* C8: the cluster control plane, the worker pool and the database cluster
\* are placed in private-with-egress subnets of the network only.
C8_PrivatePlacement ==
    /\ \A c \in tree.clusters : InPrivateSubnets(c)
    /\ \A n \in tree.nodegroups : InPrivateSubnets(n)
    /\ \A d \in tree.dbClusters : InPrivateSubnets(d)

C8_Witness ==
    /\ tree.clusters # {} /\ tree.nodegroups # {} /\ tree.dbClusters # {}
    /\ Public(TheVpc.subnets) # {}

DeclaratorOrder == << "network", "cluster", "database", "outputs" >>

\* C9: the declarators run once each in the order network, cluster,
\* database, outputs, and no statement reads a handle before it is bound.
C9_LinearOrder ==
    /\ missing = {}
    /\ Len(calls) <= Len(DeclaratorOrder)
    /\ calls = SubSeq(DeclaratorOrder, 1, Len(calls))
    /\ (pc < Done) => Uses(Program[pc]) \subseteq handles
    /\ (pc = Done) => calls = DeclaratorOrder

C9_Witness == pc = Done /\ calls = DeclaratorOrder /\ tree.outputs # {}

NetworkDependents ==
    { "PaymentsEksCluster", "PaymentsNodeGroup", "AuroraSecurityGroup",
      "PaymentsAuroraCluster" }

\* C10: the engine creates every resource exactly once per deployment, the
\* network exists whenever the cluster, the worker pool, the database
\* security group or the database cluster exists, and there is one network,
\* which the cluster, the security group and the database all refer to.
C10_NetworkOutlives ==
    /\ \A id \in AllIds : createCount[id] <= 1
    /\ (phase \in {"complete", "deleting", "deleted"})
          => \A id \in AllIds : createCount[id] = 1
    /\ (live \cap NetworkDependents # {}) => "PaymentsVpc" \in live
    /\ (pc = Done) =>
          /\ Cardinality(Deployed.vpcs) = 1
          /\ \A v \in Deployed.vpcs :
              /\ \A c \in Deployed.clusters : c.vpc = v.id
              /\ \A g \in Deployed.securityGroups : g.vpc = v.id
              /\ \A d \in Deployed.dbClusters : d.vpc = v.id

C10_Witness == phase = "deleting" /\ live = {"PaymentsVpc"}

=============================================================================
